---- MODULE Spec2Model ----
(***************************************************************************)
(* A model of cpp_di (src/cpp_di.hpp): the per-type static registry         *)
(* (once_flag, cached shared_ptr, stored std::function factory), di::add,   *)
(* di::get and the recursive resolution of constructor dependencies.        *)
(*                                                                          *)
(* Compile time is modelled by the variable prog: the set of add<I, T>()    *)
(* calls that appear in the program text.  It fixes the Ledger (the types   *)
(* for which type_registry::set_type was instantiated) and never changes.   *)
(* Run time is the rest: add calls execute in any order and any number of   *)
(* times, get calls run on NumThreads threads, one step of the code at a    *)
(* time.                                                                    *)
(*                                                                          *)
(* The reflection helpers refl::fields_number and refl::fields_number_ctor  *)
(* are pure compile-time functions.  They are operators here, and ProbeSpec *)
(* evaluates them on every class shape up to MaxArity probe values.         *)
(***************************************************************************)
EXTENDS Naturals, Integers, Sequences, FiniteSets, TLC

\* ---------------------------------------------------------------- bounds
NumThreads == 2         \* threads that call di::get
MaxDepth == 5           \* nested registry<T>::get() calls on one thread
MaxInst == 5            \* make_shared allocations in one run
MaxArity == 4           \* probe values tried in one initialization of a class

Threads == 1..NumThreads

\* ------------------------------------------------- the registered classes
\* The classes of the programs under analysis.  Each has a set of
\* constructors; a constructor is the sequence of element types E of its
\* std::shared_ptr<E> parameters.
Types == {"ILogger", "Logger", "FileLogger", "Service", "App", "A", "B", "C", "Self",
          "Dual", "Pair"}

Ctors(T) ==
    CASE T = "ILogger"    -> {}                        \* abstract interface
      [] T = "Logger"     -> {<<>>}
      [] T = "FileLogger" -> {<<>>}
      [] T = "Service"    -> {<<"ILogger">>}
      [] T = "App"        -> {<<"Service", "ILogger">>}
      [] T = "A"          -> {<<"B">>}
      [] T = "B"          -> {<<"C">>}
      [] T = "C"          -> {<<"A">>}
      [] T = "Self"       -> {<<"Self">>}
      [] T = "Dual"       -> {<<>>, <<"ILogger">>}
      [] T = "Pair"       -> {<<"Logger", "FileLogger">>,
                              <<"Logger", "FileLogger", "ILogger">>}

\* std::is_same_v<I, T> || std::is_base_of_v<I, T>
IsSameOrBaseOf(I, T) ==
    \/ I = T
    \/ I = "ILogger" /\ T \in {"Logger", "FileLogger"}

\* std::is_default_constructible_v<T>
IsDefaultConstructible(T) == <<>> \in Ctors(T)

\* The counts n of probe values for which T(c_op<T, 0>{}, ..., c_op<T, n-1>{})
\* is well formed: a probe converts to every parameter type, so the
\* expression is well formed when exactly one constructor takes n arguments.
CtorArities(T) ==
    {n \in 0..MaxArity : Cardinality({c \in Ctors(T) : Len(c) = n}) = 1}

\* A search that keeps the longest well-formed constructor call.
fields_number_ctor_longest(S, n) ==
    CHOOSE m \in S : \A k \in S : k <= m

\* refl::fields_number_ctor<T, 0..n-1>, for a class with the set S of
\* well-formed counts: n when T(c_op...) with n probes is well formed,
\* otherwise the overload with one more probe.
RECURSIVE fields_number_ctor(_, _)
fields_number_ctor(S, n) ==
    IF n \in S THEN n ELSE fields_number_ctor(S, n + 1)

\* A count that is one less again: sizeof...(Ns) - 2 at the first failure.
RECURSIVE fields_number_less(_, _)
fields_number_less(L, n) ==
    IF n \in L THEN fields_number_less(L, n + 1) ELSE n - 2

\* refl::fields_number<T, 0..n-1>, for a class with the set L of counts for
\* which T{c_op...} is well formed: with n probes well formed, the overload
\* with one more probe; otherwise sizeof...(Ns) - 1.
RECURSIVE fields_number(_, _)
fields_number(L, n) ==
    IF n \in L THEN fields_number(L, n + 1) ELSE n - 1

\* refl::as_tuple<T>: the parameter types recorded for indices
\* 0 .. fields_number_ctor<T>(0) - 1.
as_tuple(T) ==
    CHOOSE c \in Ctors(T) : Len(c) = fields_number_ctor(CtorArities(T), 0)

\* ------------------------------------------------------------ the programs
\* A program is the set of add<I, T>() calls in its text, and the set of T
\* it calls get<T>() with.
Programs == {"wire", "first", "cycle", "self", "missing", "keys", "dual", "retry"}

Adds(p) ==
    CASE p = "wire"    -> {<<"ILogger", "Logger">>, <<"Service", "Service">>, <<"App", "App">>}
      [] p = "first"   -> {<<"ILogger", "Logger">>, <<"ILogger", "FileLogger">>,
                           <<"Service", "Service">>}
      [] p = "cycle"   -> {<<"A", "A">>, <<"B", "B">>, <<"C", "C">>}
      [] p = "self"    -> {<<"Self", "Self">>}
      [] p = "missing" -> {<<"Service", "Service">>}
      [] p = "keys"    -> {<<"ILogger", "Logger">>, <<"Logger", "Logger">>}
      [] p = "dual"    -> {<<"Dual", "Dual">>, <<"ILogger", "Logger">>}
      [] p = "retry"   -> {<<"Logger", "Logger">>, <<"FileLogger", "FileLogger">>,
                           <<"Pair", "Pair">>}

\* The get<T>() calls of the program: "retry" asks for Pair only, the others
\* for every type they add.
Gets(p) == IF p = "retry" THEN {"Pair"} ELSE {a[1] : a \in Adds(p)}

\* type_registry::set_type<I> is instantiated by every add<I, T> in the text.
Ledger(p) == {a[1] : a \in Adds(p)}

\* type_registry::check_type<T>: well formed only when set_type<T> was
\* instantiated.
check_type(p, T) == T \in Ledger(p)

\* ------------------------------------------------------------------ state
VARIABLES
    prog,         \* the program that was compiled
    constructor,  \* registry<T>::constructor, per T
    flag,         \* registry<T>::flag, per T
    obj,          \* registry<T>::obj, per T: an instance id, or Null
    heap,         \* the objects made by make_shared, in allocation order
    stack,        \* per thread: the frames of registry<T>::get() in progress
    threw,        \* per thread: its last di::get ended in an exception
    handed,       \* every <<T, instance>> some registry<T>::get() returned
    requested,    \* the T for which registry<T>::get() was ever entered
    lastAdd,      \* the last add<I, T>() that found another class's factory stored for I
    probe         \* the constant evaluation of refl::fields_number(_ctor) on a class

vars == <<prog, constructor, flag, obj, heap, stack, threw, handed, requested, lastAdd, probe>>

Null == 0

\* An empty std::function, and the closures add stores.
EmptyFn == [set |-> FALSE, impl |-> "", params |-> <<>>]

FlagIdle == [state |-> "idle", owner |-> 0]
FlagDone == [state |-> "done", owner |-> 0]
FlagActive(th) == [state |-> "active", owner |-> th]

NoAdd == [I |-> "", T |-> "", found |-> ""]

\* No evaluation of the reflection helpers under observation.
NoProbe == [fn |-> "", ok |-> {}, done |-> FALSE, ret |-> 0]

RegistryInit ==
    /\ prog \in Programs
    /\ constructor = [t \in Types |-> EmptyFn]
    /\ flag = [t \in Types |-> FlagIdle]
    /\ obj = [t \in Types |-> Null]
    /\ heap = <<>>
    /\ stack = [th \in Threads |-> <<>>]
    /\ threw = [th \in Threads |-> FALSE]
    /\ handed = {}
    /\ requested = {}
    /\ lastAdd = NoAdd

Init ==
    /\ RegistryInit
    /\ probe = NoProbe


\* ---------------------------------------------------------------- helpers
\* A frame is one call of registry<T>::get() in progress on a thread.
\*   "once"    at std::call_once(flag, ...)
\*   "resolve" inside constructor(): resolving the tuple of dependencies
\*   "ret"     call_once has returned; at `return obj;`
\*   "throw"   an exception is leaving this call's call_once
NewFrame(T) == [key |-> T, pc |-> "once", fn |-> EmptyFn, args |-> <<>>]

Busy(th) == stack[th] # <<>>
Top(th) == stack[th][Len(stack[th])]
Pop(s) == SubSeq(s, 1, Len(s) - 1)
SetTop(s, f) == [s EXCEPT ![Len(s)] = f]

\* add that discovers a signature whenever the class has a constructor with
\* parameters, default-constructible or not.
FactoryPreferInjection(I, T) ==
    IF \E c \in Ctors(T) : c # <<>>
    THEN [set |-> TRUE, impl |-> T, params |-> CHOOSE c \in Ctors(T) : c # <<>>]
    ELSE [set |-> TRUE, impl |-> T, params |-> <<>>]

\* The closure add<I, T>() stores: the default-constructible overload stores
\* make_shared<T>(), the other one resolves refl::as_tuple<T> first.
Factory(I, T) ==
    IF IsDefaultConstructible(T)
    THEN [set |-> TRUE, impl |-> T, params |-> <<>>]
    ELSE [set |-> TRUE, impl |-> T, params |-> as_tuple(T)]

\* add without the early return: the last registration wins.
AlreadyBoundIgnored(I) == FALSE

\* `if (registry<INTERFACE_T>::constructor) return;`
AlreadyBound(I) == constructor[I].set

\* std::call_once: a call is passive when the flag is set, and may become
\* the active execution only when no execution is active; otherwise it waits.
\* call_once that lets the thread running the initialization back in.
OnceIsDoneReentrant(T, th) ==
    flag[T].state = "done" \/ (flag[T].state = "active" /\ flag[T].owner = th)

OnceIsDone(T, th) == flag[T].state = "done"

\* A flag that is only tested, not waited on.
OnceCanRunRacy(T, th) == flag[T].state # "done"

OnceCanRun(T, th) == flag[T].state = "idle"

\* The tuple filled from its last position.
construct_tuple_assign_back(args, h) == <<h>> \o args

\* std::get<N>(tuple) = registry<E>::get(), for N = 0, 1, ... in this order.
construct_tuple_assign(args, h) == Append(args, h)

\* make_shared_from_tuple<T>(args)
make_shared_from_tuple(key, fn, args) ==
    [key |-> key, impl |-> fn.impl, deps |-> args]

\* The state of the Binding of T: Unbound (no factory stored), Bound (factory
\* stored, no instance cached) or Realized (instance cached).
State(T) ==
    IF obj[T] # Null THEN "Realized"
    ELSE IF constructor[T].set THEN "Bound"
    ELSE "Unbound"

\* ---------------------------------------------------------------- actions
\* add that builds the object when it registers it.
AddEager(I, T) ==
    /\ <<I, T>> \in Adds(prog)
    /\ IsSameOrBaseOf(I, T)
    /\ ~AlreadyBound(I)
    /\ Len(heap) < MaxInst
    /\ constructor' = [constructor EXCEPT ![I] = Factory(I, T)]
    /\ heap' = Append(heap, make_shared_from_tuple(I, Factory(I, T), <<>>))
    /\ obj' = [obj EXCEPT ![I] = Len(heap) + 1]
    /\ flag' = [flag EXCEPT ![I] = FlagDone]
    /\ UNCHANGED <<prog, probe, stack, threw, handed, requested, lastAdd>>

\* add that rebinds: a later registration replaces the factory and drops the
\* cached instance.
AddRebind(I, T) ==
    /\ <<I, T>> \in Adds(prog)
    /\ IsSameOrBaseOf(I, T)
    /\ constructor' = [constructor EXCEPT ![I] = Factory(I, T)]
    /\ obj' = [obj EXCEPT ![I] = Null]
    /\ flag' = [flag EXCEPT ![I] = IF @.state = "done" THEN FlagIdle ELSE @]
    /\ lastAdd' = IF AlreadyBound(I) /\ constructor[I].impl # T
                  THEN [I |-> I, T |-> T, found |-> State(I)]
                  ELSE lastAdd
    /\ UNCHANGED <<prog, probe, heap, stack, threw, handed, requested>>

\* add that stores the factory only when every type of its signature has a
\* factory stored already.
AddAfterDependencies(I, T) ==
    /\ <<I, T>> \in Adds(prog)
    /\ IsSameOrBaseOf(I, T)
    /\ constructor' =
           IF \/ AlreadyBound(I)
              \/ \E k \in 1..Len(Factory(I, T).params) :
                     ~constructor[Factory(I, T).params[k]].set
           THEN constructor
           ELSE [constructor EXCEPT ![I] = Factory(I, T)]
    /\ lastAdd' = IF AlreadyBound(I) /\ constructor[I].impl # T
                  THEN [I |-> I, T |-> T, found |-> State(I)]
                  ELSE lastAdd
    /\ UNCHANGED <<prog, probe, flag, obj, heap, stack, threw, handed, requested>>

\* di::add<I, T>(), either overload.
Add(I, T) ==
    /\ <<I, T>> \in Adds(prog)
    /\ IsSameOrBaseOf(I, T)
    /\ constructor' = IF AlreadyBound(I) THEN constructor
                      ELSE [constructor EXCEPT ![I] = Factory(I, T)]
    /\ lastAdd' = IF AlreadyBound(I) /\ constructor[I].impl # T
                  THEN [I |-> I, T |-> T, found |-> State(I)]
                  ELSE lastAdd
    /\ UNCHANGED <<prog, probe, flag, obj, heap, stack, threw, handed, requested>>

\* di::get<T>() is called on an idle thread: check_type<T>, then
\* registry<T>::get() is entered.
GetCall(th, T) ==
    /\ ~Busy(th)
    /\ T \in Gets(prog)
    /\ check_type(prog, T)
    /\ stack' = [stack EXCEPT ![th] = <<NewFrame(T)>>]
    /\ threw' = [threw EXCEPT ![th] = FALSE]
    /\ requested' = requested \cup {T}
    /\ UNCHANGED <<prog, probe, constructor, flag, obj, heap, handed, lastAdd>>

\* std::call_once(flag, []() { obj = constructor(); }) is reached.  A set flag
\* makes the call passive.  With no execution active the call becomes the
\* active one and invokes constructor: an empty std::function throws
\* std::bad_function_call.  While an execution is active the call waits.
CallOnce(th) ==
    /\ Busy(th)
    /\ Top(th).pc = "once"
    /\ LET T == Top(th).key IN
       \/ /\ OnceIsDone(T, th)
          /\ stack' = [stack EXCEPT ![th] = SetTop(@, [Top(th) EXCEPT !.pc = "ret"])]
          /\ UNCHANGED flag
       \/ /\ ~OnceIsDone(T, th)
          /\ OnceCanRun(T, th)
          /\ flag' = [flag EXCEPT ![T] = FlagActive(th)]
          /\ stack' = [stack EXCEPT ![th] = SetTop(@,
                 [Top(th) EXCEPT !.pc = IF constructor[T].set THEN "resolve" ELSE "throw",
                                 !.fn = constructor[T]])]
    /\ UNCHANGED <<prog, probe, constructor, obj, heap, threw, handed, requested, lastAdd>>

\* The tuple of dependencies resolved from its last position to its first.
ResolveNextBackwards(th) ==
    /\ Busy(th)
    /\ Top(th).pc = "resolve"
    /\ Len(Top(th).args) < Len(Top(th).fn.params)
    /\ Len(stack[th]) < MaxDepth
    /\ LET E == Top(th).fn.params[Len(Top(th).fn.params) - Len(Top(th).args)] IN
       /\ stack' = [stack EXCEPT ![th] = Append(@, NewFrame(E))]
       /\ requested' = requested \cup {E}
    /\ UNCHANGED <<prog, probe, constructor, flag, obj, heap, threw, handed, lastAdd>>

\* construct_tuple_assign<BASE_T, N>: the next dependency is resolved by
\* registry<E>::get(), without check_type<E>.
ResolveNext(th) ==
    /\ Busy(th)
    /\ Top(th).pc = "resolve"
    /\ Len(Top(th).args) < Len(Top(th).fn.params)
    /\ Len(stack[th]) < MaxDepth
    /\ LET E == Top(th).fn.params[Len(Top(th).args) + 1] IN
       /\ stack' = [stack EXCEPT ![th] = Append(@, NewFrame(E))]
       /\ requested' = requested \cup {E}
    /\ UNCHANGED <<prog, probe, constructor, flag, obj, heap, threw, handed, lastAdd>>

\* A factory that runs on every get: the flag is not set on return.
ConstructTransient(th) ==
    /\ Busy(th)
    /\ Top(th).pc = "resolve"
    /\ Len(Top(th).args) = Len(Top(th).fn.params)
    /\ Len(heap) < MaxInst
    /\ LET T == Top(th).key IN
       /\ heap' = Append(heap, make_shared_from_tuple(T, Top(th).fn, Top(th).args))
       /\ obj' = [obj EXCEPT ![T] = Len(heap) + 1]
       /\ flag' = [flag EXCEPT ![T] = FlagIdle]
       /\ stack' = [stack EXCEPT ![th] = SetTop(@, [Top(th) EXCEPT !.pc = "ret"])]
    /\ UNCHANGED <<prog, probe, constructor, threw, handed, requested, lastAdd>>

\* The active execution returns without the flag being set.
ConstructNoRelease(th) ==
    /\ Busy(th)
    /\ Top(th).pc = "resolve"
    /\ Len(Top(th).args) = Len(Top(th).fn.params)
    /\ Len(heap) < MaxInst
    /\ LET T == Top(th).key IN
       /\ heap' = Append(heap, make_shared_from_tuple(T, Top(th).fn, Top(th).args))
       /\ obj' = [obj EXCEPT ![T] = Len(heap) + 1]
       /\ stack' = [stack EXCEPT ![th] = SetTop(@, [Top(th) EXCEPT !.pc = "ret"])]
    /\ UNCHANGED <<prog, probe, constructor, flag, threw, handed, requested, lastAdd>>

\* A cache kept per implementation class: a key whose factory makes a class
\* that was made before gets the object made then.
ConstructPerImplementation(th) ==
    /\ Busy(th)
    /\ Top(th).pc = "resolve"
    /\ Len(Top(th).args) = Len(Top(th).fn.params)
    /\ Len(heap) < MaxInst
    /\ LET T == Top(th).key
           same == {i \in 1..Len(heap) : heap[i].impl = Top(th).fn.impl}
       IN
       /\ IF same = {}
          THEN /\ heap' = Append(heap, make_shared_from_tuple(T, Top(th).fn, Top(th).args))
               /\ obj' = [obj EXCEPT ![T] = Len(heap) + 1]
          ELSE /\ heap' = heap
               /\ obj' = [obj EXCEPT ![T] = CHOOSE i \in same : TRUE]
       /\ flag' = [flag EXCEPT ![T] = FlagDone]
       /\ stack' = [stack EXCEPT ![th] = SetTop(@, [Top(th) EXCEPT !.pc = "ret"])]
    /\ UNCHANGED <<prog, probe, constructor, threw, handed, requested, lastAdd>>

\* All dependencies are resolved: the object is made, stored in obj, and the
\* active execution returns, which sets the flag.
Construct(th) ==
    /\ Busy(th)
    /\ Top(th).pc = "resolve"
    /\ Len(Top(th).args) = Len(Top(th).fn.params)
    /\ Len(heap) < MaxInst
    /\ LET T == Top(th).key IN
       /\ heap' = Append(heap, make_shared_from_tuple(T, Top(th).fn, Top(th).args))
       /\ obj' = [obj EXCEPT ![T] = Len(heap) + 1]
       /\ flag' = [flag EXCEPT ![T] = FlagDone]
       /\ stack' = [stack EXCEPT ![th] = SetTop(@, [Top(th) EXCEPT !.pc = "ret"])]
    /\ UNCHANGED <<prog, probe, constructor, threw, handed, requested, lastAdd>>

\* `return obj;`: to the factory that asked for the dependency, or to the
\* caller of di::get.
Return(th) ==
    /\ Busy(th)
    /\ Top(th).pc = "ret"
    /\ LET T == Top(th).key
           h == obj[T]
           rest == Pop(stack[th])
       IN
       /\ handed' = handed \cup {<<T, h>>}
       /\ stack' = [stack EXCEPT ![th] =
              IF rest = <<>> THEN <<>>
              ELSE SetTop(rest,
                      [rest[Len(rest)] EXCEPT !.args = construct_tuple_assign(@, h)])]
    /\ UNCHANGED <<prog, probe, constructor, flag, obj, heap, threw, requested, lastAdd>>

\* call_once that counts an exceptional execution as the evaluation.
ThrowMarksEvaluated(th) ==
    /\ Busy(th)
    /\ Top(th).pc = "throw"
    /\ LET T == Top(th).key
           rest == Pop(stack[th])
       IN
       /\ flag' = [flag EXCEPT ![T] = FlagDone]
       /\ IF rest = <<>>
          THEN /\ stack' = [stack EXCEPT ![th] = <<>>]
               /\ threw' = [threw EXCEPT ![th] = TRUE]
          ELSE /\ stack' = [stack EXCEPT ![th] = SetTop(rest,
                      [rest[Len(rest)] EXCEPT !.pc = "throw"])]
               /\ UNCHANGED threw
    /\ UNCHANGED <<prog, probe, constructor, obj, heap, handed, requested, lastAdd>>

\* An exception leaves call_once: the flag is left unset and no execution is
\* active any more; the exception goes on through the factory that asked for
\* the dependency, or reaches the caller of di::get.
Throw(th) ==
    /\ Busy(th)
    /\ Top(th).pc = "throw"
    /\ LET T == Top(th).key
           rest == Pop(stack[th])
       IN
       /\ flag' = [flag EXCEPT ![T] = FlagIdle]
       /\ IF rest = <<>>
          THEN /\ stack' = [stack EXCEPT ![th] = <<>>]
               /\ threw' = [threw EXCEPT ![th] = TRUE]
          ELSE /\ stack' = [stack EXCEPT ![th] = SetTop(rest,
                      [rest[Len(rest)] EXCEPT !.pc = "throw"])]
               /\ UNCHANGED threw
    /\ UNCHANGED <<prog, probe, constructor, obj, heap, handed, requested, lastAdd>>

\* One step of a thread inside di::get.
Step(th) ==
    \/ CallOnce(th)
    \/ ResolveNext(th)
    \/ Construct(th)
    \/ Return(th)
    \/ Throw(th)

Next ==
    \/ \E I \in Types, T \in Types : Add(I, T)
    \/ \E th \in Threads, T \in Types : GetCall(th, T)
    \/ \E th \in Threads : Step(th)

Spec == Init /\ [][Next]_vars

\* Every thread inside di::get keeps running: the scheduler runs each
\* runnable thread and constructors terminate.
Fairness == \A th \in Threads : WF_vars(Step(th))

LiveSpec == Init /\ [][Next]_vars /\ Fairness

\* ------------------------------------------------- the reflection helpers
\* The classes the helpers are evaluated on, each given by the set of probe
\* counts for which its initialization is well formed.  fields_number_ctor
\* is instantiated only for a class that has a constructor.
ProbeInputs ==
    {[fn |-> f, ok |-> S, done |-> FALSE, ret |-> 0] :
        f \in {"fields_number_ctor", "fields_number"}, S \in SUBSET (0..MaxArity)}
    \ {[fn |-> "fields_number_ctor", ok |-> {}, done |-> FALSE, ret |-> 0]}

ProbeInit ==
    /\ RegistryInit
    /\ probe \in ProbeInputs

\* refl::fields_number_ctor<T>(0) is evaluated.
ProbeCtor ==
    /\ probe.fn = "fields_number_ctor"
    /\ ~probe.done
    /\ probe' = [probe EXCEPT !.done = TRUE, !.ret = fields_number_ctor(probe.ok, 0)]
    /\ UNCHANGED <<prog, constructor, flag, obj, heap, stack, threw, handed, requested, lastAdd>>

\* refl::fields_number<T>(0) is evaluated.
ProbeAggregate ==
    /\ probe.fn = "fields_number"
    /\ ~probe.done
    /\ probe' = [probe EXCEPT !.done = TRUE, !.ret = fields_number(probe.ok, 0)]
    /\ UNCHANGED <<prog, constructor, flag, obj, heap, stack, threw, handed, requested, lastAdd>>

ProbeNext == ProbeCtor \/ ProbeAggregate

ProbeSpec == ProbeInit /\ [][ProbeNext]_vars


\* ------------------------------------------------------------- properties
\* The number of objects the factory stored under T has produced.
Evals(T) == Cardinality({i \in 1..Len(heap) : heap[i].key = T})

\* The calls of registry<T>::get() in progress, as <<thread, frame index>>.
FramesOf(T) ==
    {x \in Threads \X (1..MaxDepth) :
        x[2] <= Len(stack[x[1]]) /\ stack[x[1]][x[2]].key = T}

PcOf(x) == stack[x[1]][x[2]].pc

\* C1: the factory stored for T completes at most once, whatever the number
\* of threads in get<T>(): at any time at most one call is the active
\* execution of T's call_once, a call gets past call_once only when the
\* evaluation has completed, and every call has returned the cached handle
\* of the one object T's factory made.
ExactlyOnce ==
    \A T \in Types :
        /\ Evals(T) <= 1
        /\ Cardinality({x \in FramesOf(T) : PcOf(x) \in {"resolve", "throw"}}) <= 1
        /\ \A x \in FramesOf(T) :
               PcOf(x) = "ret" =>
                   /\ flag[T].state = "done"
                   /\ Evals(T) = 1
                   /\ obj[T] # Null
        /\ \A p \in handed :
               p[1] = T =>
                   /\ p[2] = obj[T]
                   /\ p[2] \in 1..Len(heap)
                   /\ heap[p[2]].key = T

\* Two threads are in get<T>() for the same T, neither has got a handle of T
\* before: one evaluates the factory, the other waits in call_once.
ExactlyOnceWitness ==
    \E T \in Types, a \in Threads, b \in Threads :
        /\ a # b
        /\ Len(stack[a]) = 1 /\ stack[a][1].key = T /\ stack[a][1].pc = "resolve"
        /\ Len(stack[b]) = 1 /\ stack[b][1].key = T /\ stack[b][1].pc = "once"
        /\ \A p \in handed : p[1] # T

\* C2: all the handles returned for T are one instance, and the instance
\* cached for T is never replaced.
SingletonIdentity ==
    /\ [](\A p \in handed, q \in handed : p[1] = q[1] => p[2] = q[2])
    /\ [][\A T \in Types : obj[T] # Null => obj'[T] = obj[T]]_vars

\* A handle of T has been returned, an add for T has run since, and another
\* get<T>() is about to return.
SingletonIdentityWitness ==
    \E T \in Types, th \in Threads :
        /\ <<T, obj[T]>> \in handed
        /\ lastAdd.found = "Realized" /\ lastAdd.I = T
        /\ Busy(th) /\ Len(stack[th]) = 1 /\ Top(th).key = T /\ Top(th).pc = "ret"

\* C3: add stores a factory and nothing else: it makes no object, sets no
\* flag and enters no get.  No object of T's factory exists before
\* registry<T>::get() is entered for the first time, and exactly one exists
\* whenever a handle of T has been returned.
LazyConstruction ==
    /\ [](\A T \in Types :
            /\ T \notin requested => Evals(T) = 0 /\ obj[T] = Null
            /\ (\E p \in handed : p[1] = T) => Evals(T) = 1)
    /\ [][\A I \in Types, T \in Types :
            Add(I, T) => UNCHANGED <<heap, obj, flag, stack, requested>>]_vars

\* T is bound and was never asked for, while a get of another type has
\* returned its one object.
LazyConstructionWitness ==
    \E T \in Types, U \in Types :
        /\ constructor[T].set /\ T \notin requested /\ Evals(T) = 0
        /\ <<U, obj[U]>> \in handed /\ Evals(U) = 1

\* C4: a stored factory is never replaced, an add for a bound Interface
\* changes neither factory nor flag nor cached instance, and every object
\* made for a key was made by the factory stored for it (the first add's).
FirstWriterWins ==
    /\ [][\A I \in Types : constructor[I].set => constructor'[I] = constructor[I]]_vars
    /\ [][\A I \in Types, T \in Types :
            (AlreadyBound(I) /\ Add(I, T)) => UNCHANGED <<constructor, flag, obj>>]_vars
    /\ [](\A i \in 1..Len(heap) :
            /\ constructor[heap[i].key].set
            /\ heap[i].impl = constructor[heap[i].key].impl)

\* add<ILogger, Logger>() ran first, add<ILogger, FileLogger>() ran on the
\* bound ILogger, and a later get<ILogger>() returned a Logger.
FirstWriterWinsWitness ==
    /\ lastAdd = [I |-> "ILogger", T |-> "FileLogger", found |-> "Bound"]
    /\ \E p \in handed : p[1] = "ILogger" /\ heap[p[2]].impl = "Logger"

\* C5: an object returned for T holds, at each position of the signature of
\* T's factory, the one instance cached for that dependency, the only one
\* ever returned for it, and the dependency was constructed once.
DependencyWiring ==
    \A p \in handed :
        /\ p[2] \in 1..Len(heap)
        /\ constructor[p[1]].set
        /\ LET params == constructor[p[1]].params
               deps == heap[p[2]].deps
           IN  /\ Len(deps) = Len(params)
               /\ \A i \in 1..Len(deps) :
                      /\ deps[i] # Null
                      /\ deps[i] = obj[params[i]]
                      /\ Evals(params[i]) = 1
                      /\ \A q \in handed : q[1] = params[i] => q[2] = deps[i]

\* get<App>() has returned an App built from (Service, ILogger), and both
\* get<Service>() and get<ILogger>() have returned too.
DependencyWiringWitness ==
    /\ \E p \in handed : p[1] = "App" /\ Len(heap[p[2]].deps) = 2
    /\ {"App", "Service", "ILogger"} \subseteq {p[1] : p \in handed}


\* C6: no call of get ends in an error or an exception.
NoRuntimeError == \A th \in Threads : ~threw[th]

\* C7: every type a factory resolves as a dependency has a Ledger Entry, as
\* the type given to di::get has.
DependenciesChecked ==
    \A th \in Threads : \A i \in 1..Len(stack[th]) :
        check_type(prog, stack[th][i].key)

\* The types the factory stored for T asks for, and all it reaches.
DepOf(T) ==
    IF constructor[T].set
    THEN {constructor[T].params[i] : i \in 1..Len(constructor[T].params)}
    ELSE {}

RECURSIVE Reach(_)
Reach(S) ==
    LET N == S \cup UNION {DepOf(U) : U \in S}
    IN  IF N = S THEN S ELSE Reach(N)

ReachPlus(T) == Reach(DepOf(T))

OnCycle(T) == T \in ReachPlus(T)

\* Wiring is complete for T: T and all it reaches are Bound, with no cycle.
Complete(T) ==
    /\ constructor[T].set
    /\ ~OnCycle(T)
    /\ \A U \in ReachPlus(T) : constructor[U].set /\ ~OnCycle(U)

\* T is on a cycle all of whose types are Bound.
CycleBound(T) ==
    /\ OnCycle(T)
    /\ \A U \in ReachPlus(T) : constructor[U].set

Throwing(th) == \E i \in 1..Len(stack[th]) : stack[th][i].pc = "throw"

\* The thread waits in call_once for an active execution to end.
Blocked(th) ==
    /\ Busy(th)
    /\ Top(th).pc = "once"
    /\ flag[Top(th).key].state = "active"

\* The thread waits for a set of waiting threads it belongs to.
Stuck(th) ==
    \E S \in SUBSET Threads :
        /\ th \in S
        /\ \A u \in S : Blocked(u) /\ flag[Top(u).key].owner \in S

\* The thread is in a get of a type whose wiring is complete, with no
\* exception in flight from before the wiring was completed.
InCompleteCall(th) ==
    Busy(th) /\ Complete(stack[th][1].key) /\ ~Throwing(th)

\* The thread is in a get of a type on a cycle whose types are all Bound.
InCycleCall(th) ==
    Busy(th) /\ CycleBound(stack[th][1].key) /\ ~Throwing(th)

\* C8: a get on a type whose wiring is complete is never in a deadlock, can
\* end only by returning a handle, and does end, whatever the other threads
\* do.
SafeUnderConcurrency ==
    /\ [](\A th \in Threads : InCompleteCall(th) => ~Stuck(th))
    /\ [][\A th \in Threads :
            InCompleteCall(th) =>
                IF Busy(th)' THEN ~Throwing(th)' /\ stack'[th][1].key = stack[th][1].key
                ELSE Return(th) /\ obj[stack[th][1].key] # Null]_vars
    /\ \A th \in Threads : []<>(~InCompleteCall(th))

\* Wiring is complete for App; one thread is inside App's factory resolving
\* a dependency and another waits in call_once for it.
SafeUnderConcurrencyWitness ==
    \E a \in Threads, b \in Threads :
        /\ a # b
        /\ Busy(a) /\ Busy(b)
        /\ stack[a][1].key = "App" /\ Complete("App") /\ Len(stack[a]) > 1
        /\ ~Throwing(a) /\ ~Throwing(b)
        /\ Blocked(b) /\ flag[Top(b).key].owner = a

\* C9: the state of a Binding changes only Unbound -> Bound, in an add, and
\* Bound -> Realized, when the factory completes inside a get; a Realized
\* Binding keeps its instance.
BindingStateMachine ==
    [][\A T \in Types :
          /\ \/ State(T)' = State(T)
             \/ /\ State(T) = "Unbound" /\ State(T)' = "Bound"
                /\ \E X \in Types : Add(T, X)
             \/ /\ State(T) = "Bound" /\ State(T)' = "Realized"
                /\ T \in requested
                /\ \E th \in Threads : Busy(th) /\ Top(th).key = T /\ Construct(th)
          /\ State(T) = "Realized" => obj'[T] = obj[T]]_vars

\* An add ran on a Realized Binding, which is Realized still.
BindingStateMachineWitness ==
    /\ lastAdd.found = "Realized"
    /\ State(lastAdd.I) = "Realized"
    /\ <<lastAdd.I, obj[lastAdd.I]>> \in handed

\* C10: no type on a dependency cycle is ever Realized and no get of it
\* returns a handle; a thread that waits on its own in-progress
\* initialization, or in a ring of threads each waiting on the next one's,
\* waits forever; and a get on a cycle whose types are all Bound never ends
\* and ends up waiting so.
CyclicDeadlock ==
    /\ [](\A T \in Types :
            OnCycle(T) =>
                /\ obj[T] = Null
                /\ flag[T].state # "done"
                /\ \A p \in handed : p[1] # T)
    /\ [][\A th \in Threads :
            Stuck(th) => (Stuck(th)' /\ stack'[th] = stack[th])]_vars
    /\ [][\A th \in Threads :
            InCycleCall(th) =>
                Busy(th)' /\ ~Throwing(th)' /\ stack'[th][1].key = stack[th][1].key]_vars
    /\ \A th \in Threads : []<>(InCycleCall(th) => Stuck(th))

\* Two threads entered the cycle A -> B -> C -> A at different types and each
\* waits on the initialization the other is running.
CyclicDeadlockWitness ==
    \E a \in Threads, b \in Threads :
        /\ a # b
        /\ Blocked(a) /\ flag[Top(a).key].owner = b
        /\ Blocked(b) /\ flag[Top(b).key].owner = a
        /\ stack[a][1].key # stack[b][1].key

\* A thread re-enters the initialization it is itself running.
SelfDeadlock ==
    \E th \in Threads :
        Blocked(th) /\ flag[Top(th).key].owner = th /\ Stuck(th)

\* T and all that T's factory reaches are Realized.
FullyRealized(T) == obj[T] # Null /\ \A U \in ReachPlus(T) : obj[U] # Null

\* C11: resolution is depth-first and follows the signature.  A factory in
\* progress holds, for the first positions of its signature in order, the
\* cached instances of dependencies that are Realized with all they reach;
\* the one nested call above it is for the next position; its own type is
\* not Realized yet.  So a Realized type, and a type whose handle was
\* returned, has all its direct and transitive dependencies Realized, and a
\* constructor runs only when the whole signature is resolved.
DepthFirstOrder ==
    /\ [](\A th \in Threads : \A i \in 1..Len(stack[th]) :
            LET f == stack[th][i] IN
            /\ i < Len(stack[th]) => f.pc = "resolve"
            /\ f.pc = "resolve" =>
                   /\ obj[f.key] = Null
                   /\ Len(f.args) <= Len(f.fn.params)
                   /\ \A k \in 1..Len(f.args) :
                          /\ f.args[k] = obj[f.fn.params[k]]
                          /\ FullyRealized(f.fn.params[k])
                   /\ i < Len(stack[th]) =>
                          stack[th][i + 1].key = f.fn.params[Len(f.args) + 1])
    /\ [](\A T \in Types : obj[T] # Null => FullyRealized(T))
    /\ [](\A p \in handed : FullyRealized(p[1]))
    /\ [][\A th \in Threads :
            Construct(th) =>
                \A k \in 1..Len(Top(th).fn.params) :
                    FullyRealized(Top(th).fn.params[k])]_vars

\* App's factory has its position 0 (Service, with the ILogger Service asked
\* for) resolved and is in the nested call for position 1, ILogger.
DepthFirstOrderWitness ==
    \E th \in Threads :
        /\ Len(stack[th]) = 2
        /\ stack[th][1].key = "App" /\ Len(stack[th][1].args) = 1
        /\ stack[th][2].key = "ILogger"
        /\ FullyRealized("Service")

\* The factory stored for T makes a default-constructible class.
BoundToDefault(T) ==
    constructor[T].set /\ IsDefaultConstructible(constructor[T].impl)

\* C12: the factory add stores for a default-constructible Impl takes no
\* dependencies, whatever other constructors Impl has: its objects hold no
\* dependency, no nested resolution runs under it, and the steps of a
\* get<Interface>() on it leave factory, flag and cached instance of every
\* other type as they were.  Only a class that is not default-constructible
\* gets a factory with a discovered signature.
DefaultConstructibleFirst ==
    /\ [](\A T \in Types :
            /\ BoundToDefault(T) => constructor[T].params = <<>>
            /\ (constructor[T].set /\ ~IsDefaultConstructible(constructor[T].impl)) =>
                   constructor[T].params = as_tuple(constructor[T].impl))
    /\ [](\A i \in 1..Len(heap) :
            IsDefaultConstructible(heap[i].impl) => heap[i].deps = <<>>)
    /\ [](\A th \in Threads : \A i \in 1..Len(stack[th]) :
            (stack[th][i].fn.set /\ IsDefaultConstructible(stack[th][i].fn.impl)) =>
                i = Len(stack[th]))
    /\ [][\A th \in Threads :
            (Busy(th) /\ BoundToDefault(stack[th][1].key) /\ Step(th)) =>
                \A U \in Types \ {stack[th][1].key} :
                    /\ constructor'[U] = constructor[U]
                    /\ flag'[U] = flag[U]
                    /\ obj'[U] = obj[U]]_vars

\* get<Dual>() has returned a Dual made with no dependency, and ILogger, the
\* parameter of Dual's other constructor, is Bound and was never asked for.
DefaultConstructibleFirstWitness ==
    /\ <<"Dual", obj["Dual"]>> \in handed
    /\ obj["Dual"] # Null
    /\ heap[obj["Dual"]].impl = "Dual" /\ heap[obj["Dual"]].deps = <<>>
    /\ State("ILogger") = "Bound" /\ "ILogger" \notin requested

\* The least and the largest of a non-empty set of counts.
MinOf(S) == CHOOSE m \in S : \A k \in S : m <= k
MaxOf(S) == CHOOSE m \in S : \A k \in S : k <= m

\* C13: fields_number_ctor<T>(0) is the least count of probe values with
\* which T can be constructed, also when longer constructor calls are well
\* formed too, and the signature of the factory add stores for a class has
\* as many entries.
ShortestConstructor ==
    /\ (probe.fn = "fields_number_ctor" /\ probe.done) =>
           /\ probe.ret \in probe.ok
           /\ probe.ret = MinOf(probe.ok)
           /\ \A k \in 0..MaxArity : k < probe.ret => k \notin probe.ok
    /\ \A T \in Types :
           CtorArities(T) # {} =>
               /\ Len(as_tuple(T)) = MinOf(CtorArities(T))
               /\ Len(Factory(T, T).params) = MinOf(CtorArities(T))

\* A class constructible from 1 and from 3 probe values: the search has
\* returned 1.
ShortestConstructorWitness ==
    /\ probe.fn = "fields_number_ctor" /\ probe.done
    /\ probe.ok = {1, 3}
    /\ probe.ret = 1

\* C14 as stated: fields_number<T>(0) is the largest count of probe values
\* with which list-initialization of T is well formed, minus one.
LargestMinusOne ==
    (probe.fn = "fields_number" /\ probe.done /\ probe.ok # {}) =>
        probe.ret = MaxOf(probe.ok) - 1

\* C14: fields_number<T>(0) is the first count of probe values, counting up
\* from 0, with which list-initialization of T is not well formed, minus
\* one.  For a class whose list-initialization is well formed with exactly
\* 0..F probe values that is F, the largest count that is well formed.
FirstFailureMinusOne ==
    (probe.fn = "fields_number" /\ probe.done) =>
        /\ probe.ret + 1 \notin probe.ok
        /\ \A k \in 0..probe.ret : k \in probe.ok
        /\ (probe.ok # {} /\ probe.ok = 0..MaxOf(probe.ok)) =>
               probe.ret = MaxOf(probe.ok)

\* A class with two fields: list-initialization is well formed with 0, 1 and
\* 2 probe values, and the count returned is 2.
FirstFailureMinusOneWitness ==
    /\ probe.fn = "fields_number" /\ probe.done
    /\ probe.ok = {0, 1, 2}
    /\ probe.ret = 2

\* C15: a factory evaluation that fails leaves its type not evaluated.  A
\* flag is set exactly when an instance is cached; a call an exception is
\* leaving has no instance cached for its type, while the dependencies it
\* had resolved are Realized still; the step in which the exception leaves
\* call_once unsets the flag, changes no cached instance and no object, and
\* passes the exception to the factory that asked, or to the caller of get;
\* a call gets to `return obj` only with an instance cached; and a get
\* entered once the wiring is complete ends, by returning that instance.
FailureLeavesUnevaluated ==
    /\ [](\A T \in Types : flag[T].state = "done" <=> obj[T] # Null)
    /\ [](\A th \in Threads : \A i \in 1..Len(stack[th]) :
            LET f == stack[th][i] IN
            /\ f.pc = "ret" => obj[f.key] # Null
            /\ f.pc = "throw" =>
                   /\ obj[f.key] = Null
                   /\ Evals(f.key) = 0
                   /\ \A k \in 1..Len(f.args) :
                          f.args[k] # Null /\ f.args[k] = obj[f.fn.params[k]])
    /\ [][\A th \in Threads :
            Throw(th) =>
                /\ flag'[Top(th).key] = FlagIdle
                /\ obj'[Top(th).key] = Null
                /\ obj' = obj /\ heap' = heap /\ constructor' = constructor
                /\ IF Len(stack[th]) = 1
                   THEN threw'[th] /\ stack'[th] = <<>>
                   ELSE stack'[th][Len(stack[th]) - 1].pc = "throw"]_vars
    /\ [][\A th \in Threads :
            (InCompleteCall(th) /\ stack'[th] = <<>>) =>
                Return(th) /\ obj[stack[th][1].key] # Null]_vars
    /\ \A th \in Threads : []<>(~InCompleteCall(th))

\* In the program that asks for Pair only: a get<Pair>() ended in an
\* exception on one thread, and a get<Pair>() has since returned a Pair that
\* holds the cached Logger and FileLogger.
FailureLeavesUnevaluatedWitness ==
    /\ prog = "retry"
    /\ \E th \in Threads : threw[th] /\ ~Busy(th)
    /\ obj["Pair"] # Null
    /\ <<"Pair", obj["Pair"]>> \in handed
    /\ heap[obj["Pair"]].deps = <<obj["Logger"], obj["FileLogger"]>>

\* The objects of class X made so far, and the Realized keys whose factory
\* makes X.
MadeOf(X) == {i \in 1..Len(heap) : heap[i].impl = X}
RealizedTo(X) == {T \in Types : obj[T] # Null /\ constructor[T].impl = X}

\* C16: the cache is per key, not per implementation class.  The instance
\* cached for a key was made by that key's factory, two Realized keys hold
\* two different instances even when their factories make the same class,
\* the objects of a class made so far are as many as the Realized keys
\* whose factory makes it, and an add changes the factory of its own key
\* only.
KeyedByAbstractType ==
    /\ [](\A T \in Types :
            obj[T] # Null =>
                /\ obj[T] \in 1..Len(heap)
                /\ heap[obj[T]].key = T
                /\ heap[obj[T]].impl = constructor[T].impl)
    /\ [](\A T \in Types, U \in Types :
            (T # U /\ obj[T] # Null /\ obj[U] # Null) => obj[T] # obj[U])
    /\ [](\A X \in Types : Cardinality(MadeOf(X)) = Cardinality(RealizedTo(X)))
    /\ [][\A a \in Adds(prog) :
            Add(a[1], a[2]) =>
                \A U \in Types \ {a[1]} : constructor'[U] = constructor[U]]_vars

\* Logger is bound under ILogger and under Logger; get<ILogger>() and
\* get<Logger>() have both returned, each its own Logger object.
KeyedByAbstractTypeWitness ==
    /\ constructor["ILogger"].impl = "Logger" /\ constructor["Logger"].impl = "Logger"
    /\ <<"ILogger", obj["ILogger"]>> \in handed
    /\ <<"Logger", obj["Logger"]>> \in handed
    /\ obj["ILogger"] # Null /\ obj["Logger"] # Null
    /\ obj["ILogger"] # obj["Logger"]
    /\ Cardinality(MadeOf("Logger")) = 2

\* The add calls of the program have pairwise distinct Interface keys.
KeysDistinct(p) == \A a \in Adds(p), b \in Adds(p) : a[1] = b[1] => a = b

\* C17: in a program whose add calls have pairwise distinct keys, what an
\* add does depends on no other Binding, so the adds commute.  Whatever is
\* bound, Realized or in progress, an add for an Unbound key can run and
\* stores the factory of its own class, changing no other factory; hence
\* the factories stored are fixed by the set of adds that have run, not by
\* their order; and every object made holds, position by position, the
\* instances cached for the signature of its class.
AddsCommute ==
    KeysDistinct(prog) =>
        /\ \A a \in Adds(prog) :
               /\ constructor[a[1]] \in {EmptyFn, Factory(a[1], a[2])}
               /\ ~AlreadyBound(a[1]) =>
                      ENABLED (/\ Add(a[1], a[2])
                               /\ constructor' = [constructor EXCEPT ![a[1]] = Factory(a[1], a[2])])
        /\ \A T \in Types \ Ledger(prog) : constructor[T] = EmptyFn
        /\ \A i \in 1..Len(heap) :
               \E a \in Adds(prog) :
                   /\ a[1] = heap[i].key
                   /\ heap[i].impl = a[2]
                   /\ Len(heap[i].deps) = Len(Factory(a[1], a[2]).params)
                   /\ \A k \in 1..Len(heap[i].deps) :
                          heap[i].deps[k] = obj[Factory(a[1], a[2]).params[k]]

\* Before any get: App has been added, Service and ILogger, which App's
\* factory resolves, have not.
AddsCommuteWitness ==
    /\ prog = "wire"
    /\ requested = {}
    /\ State("App") = "Bound"
    /\ State("Service") = "Unbound" /\ State("ILogger") = "Unbound"

====
